---- MODULE Spec2Model ----
(***************************************************************************)
(* The LED name badge mock server (src/mock-led-display.py): the Flask     *)
(* request handlers (producers), the command queue, and the Tkinter GUI    *)
(* callbacks _animate and _process_commands (the consumer) that write      *)
(* DisplayState and repaint the LED canvas.                                *)
(*                                                                         *)
(* A display text is a sequence of one-character strings.                  *)
(***************************************************************************)
EXTENDS Integers, Sequences, FiniteSets, TLC

\* ------------------------------------------------------------------------
\* LED display configuration (mock-led-display.py, lines 36-49)
\* ------------------------------------------------------------------------
LED_ROWS == 11
LED_COLS == 44

COLOR_ON == "#FF0000"
COLOR_DIM == "#660000"
COLOR_OFF == "#1A0000"

\* ------------------------------------------------------------------------
\* Bounds of the model
\* ------------------------------------------------------------------------
\* requests the HTTP clients send in one run (over all handler threads)
MaxRequests == 2
\* animation ticks taken in one run of the whole server (Spec)
MaxTicks == 1
\* commands waiting in the queue in the initial states of SpecLoop
MaxQueue == 2
\* column groups of a raster buffer, and the byte patterns tried
MaxCols == 2
MaxSeed == 47
\* pieces a text under validation is made of
MaxPieces == 2
\* updates waiting in the queue when the scrolling text is watched forever
MaxLiveQueue == 1
\* commands the queue holds at most while producers keep putting
MaxFlood == 2

\* the Flask server is threaded: handler threads running concurrently
Producers == {"h1", "h2"}
Before(q, p) == q = "h1" /\ p = "h2"

\* ------------------------------------------------------------------------
\* The external library lednamebadge.SimpleTextAndIcons, as far as the
\* program uses it: charmap (its ASCII letters, digits and punctuation),
\* bitmap_named (two of its icons), bitmap(text).  Its glyph data is
\* replaced by stand-in bytes; the layout (11 bytes per 8-pixel column,
\* one column per character) is the library's.
\* ------------------------------------------------------------------------
charmap ==
  << "A","B","C","D","E","F","G","H","I","J","K","L","M",
     "N","O","P","Q","R","S","T","U","V","W","X","Y","Z",
     "a","b","c","d","e","f","g","h","i","j","k","l","m",
     "n","o","p","q","r","s","t","u","v","w","x","y","z",
     "0","9","8","7","6","5","4","3","2","1",
     "^"," ","!","$","%","&","/","(",")","=","?","}","]","[","{",
     "@","~","|","<",">",",",";",".",":","-","_","#","+","*" >>

Digits == {"0","1","2","3","4","5","6","7","8","9"}

NAME_star == <<"s","t","a","r">>
NAME_heart == <<"h","e","a","r","t">>
bitmap_named == {NAME_star, NAME_heart}

\* files that exist on the server's disk when a request is validated
ExistingFiles == { <<"a",".","p","n","g">> }

Range(s) == {s[n] : n \in 1..Len(s)}

\* create_flask_app, lines 334-335
BUILTIN_ICON_NAMES == bitmap_named
SUPPORTED_CHARS == Range(charmap)

IndexOf(seq, x) == CHOOSE i \in 1..Len(seq) : seq[i] = x

\* position of the first ":" of text at or after i, 0 when there is none
RECURSIVE NextColon(_, _)
NextColon(text, i) ==
  IF i > Len(text) THEN 0
  ELSE IF text[i] = ":" THEN i
  ELSE NextColon(text, i + 1)

\* re.findall(r':([^:]*):', text): the names of the non-overlapping
\* :name: tokens, left to right
RECURSIVE TokensFrom(_, _)
TokensFrom(text, i) ==
  LET a == NextColon(text, i) IN
  IF a = 0 THEN << >>
  ELSE LET b == NextColon(text, a + 1) IN
       IF b = 0 THEN << >>
       ELSE <<SubSeq(text, a + 1, b - 1)>> \o TokensFrom(text, b + 1)

Tokens(text) == TokensFrom(text, 1)

\* re.sub(r':[^:]*:', '', text): the text without its tokens
RECURSIVE StripFrom(_, _)
StripFrom(text, i) ==
  LET a == NextColon(text, i) IN
  IF a = 0 THEN SubSeq(text, i, Len(text))
  ELSE LET b == NextColon(text, a + 1) IN
       IF b = 0 THEN SubSeq(text, i, Len(text))
       ELSE SubSeq(text, i, a - 1) \o StripFrom(text, b + 1)

StripTokens(text) == StripFrom(text, 1)

\* re.match(r'^[0-9]+$', name): one or more digits up to the end of name,
\* where "$" also matches just before a final "\n"
IsNumeric(name) ==
  LET n == IF Len(name) > 0 /\ name[Len(name)] = "\n"
           THEN Len(name) - 1 ELSE Len(name)
  IN n > 0 /\ \A i \in 1..n : name[i] \in Digits

\* ------------------------------------------------------------------------
\* _validate_display_string (mock-led-display.py, lines 337-367).
\* The result is "ok" or the exception the validator raises.
\* ------------------------------------------------------------------------
TokenError(name) ==
  IF name = << >> THEN "ok"
  ELSE IF IsNumeric(name) THEN "ok"
  ELSE IF "." \in Range(name)
       THEN (IF name \in ExistingFiles THEN "ok" ELSE "FileNotFoundError")
  ELSE IF name \in BUILTIN_ICON_NAMES THEN "ok"
  ELSE "KeyError: Unknown builtin icon"

CharError(ch) ==
  IF ch = "\n" \/ ch = "\r" THEN "ok"
  ELSE IF ch \in SUPPORTED_CHARS THEN "ok"
  ELSE "KeyError: Unsupported character"

\* lines 346-359: the first token the loop raises on, "ok" when none
RECURSIVE TokensError(_, _)
TokensError(tokens, k) ==
  IF k > Len(tokens) THEN "ok"
  ELSE IF TokenError(tokens[k]) # "ok" THEN TokenError(tokens[k])
  ELSE TokensError(tokens, k + 1)

\* lines 363-367: the first character the loop raises on, "ok" when none
RECURSIVE CharsError(_, _)
CharsError(chars, k) ==
  IF k > Len(chars) THEN "ok"
  ELSE IF CharError(chars[k]) # "ok" THEN CharError(chars[k])
  ELSE CharsError(chars, k + 1)

_validate_display_string(is_str, text) ==
  IF ~is_str THEN "ValueError"
  ELSE LET t == TokensError(Tokens(text), 1) IN
       IF t # "ok" THEN t
       ELSE CharsError(StripTokens(text), 1)

\* ------------------------------------------------------------------------
\* creator.bitmap(text) of the external library, called at
\* mock-led-display.py line 57: text -> (buf, cols), or an exception.
\* A character of the charmap is one column of 11 bytes; "::" is a colon;
\* ":name:" is a builtin icon; ":file.ext:" loads an image; ":<n>:" is the
\* preloaded slot n, of which only slot 0 (the empty bitmap) exists.
\* ------------------------------------------------------------------------
Glyph(ch) == [r \in 1..LED_ROWS |-> (IndexOf(charmap, ch) * 37 + r * 29) % 256]

IconBitmap(name) == [r \in 1..LED_ROWS |-> (Len(name) * 53 + r * 19) % 256]

NoBitmap == [ok |-> FALSE, buf |-> << >>, cols |-> 0]

TokenBitmap(name) ==
  IF name = << >> THEN [ok |-> TRUE, buf |-> Glyph(":"), cols |-> 1]
  ELSE IF IsNumeric(name)
       THEN (IF \A i \in 1..Len(name) : name[i] \in {"0", "\n"}
             THEN [ok |-> TRUE, buf |-> << >>, cols |-> 0]
             ELSE NoBitmap)
  ELSE IF "." \in Range(name)
       THEN (IF name \in ExistingFiles
             THEN [ok |-> TRUE, buf |-> IconBitmap(name), cols |-> 1]
             ELSE NoBitmap)
  ELSE IF name \in bitmap_named
       THEN [ok |-> TRUE, buf |-> IconBitmap(name), cols |-> 1]
  ELSE NoBitmap

\* char_offsets of the library: the characters of the charmap
char_offsets == Range(charmap)

CharBitmap(ch) ==
  IF ch \in char_offsets THEN [ok |-> TRUE, buf |-> Glyph(ch), cols |-> 1]
  ELSE NoBitmap

Append2(a, b) ==
  IF a.ok /\ b.ok THEN [ok |-> TRUE, buf |-> a.buf \o b.buf, cols |-> a.cols + b.cols]
  ELSE NoBitmap

\* the number of ":" of text before position i
ColonsBefore(text, i) == Cardinality({j \in 1..(i - 1) : text[j] = ":"})

\* the bitmap the character at position i contributes: a ":" that opens a
\* token contributes the token's bitmap, the rest of the token nothing
ItemBitmap(text, i) ==
  LET k == ColonsBefore(text, i)
      closing == NextColon(text, i + 1)
  IN
  IF k % 2 = 0 /\ text[i] = ":" /\ closing # 0
  THEN TokenBitmap(SubSeq(text, i + 1, closing - 1))
  ELSE IF k % 2 = 1 /\ (text[i] = ":" \/ closing # 0)
  THEN [ok |-> TRUE, buf |-> << >>, cols |-> 0]
  ELSE CharBitmap(text[i])

\* the bitmaps of positions lo..hi, one after the other
RECURSIVE BitmapOf(_, _, _)
BitmapOf(text, lo, hi) ==
  IF lo > hi THEN [ok |-> TRUE, buf |-> << >>, cols |-> 0]
  ELSE IF lo = hi THEN ItemBitmap(text, lo)
  ELSE LET mid == (lo + hi) \div 2 IN
       Append2(BitmapOf(text, lo, mid), BitmapOf(text, mid + 1, hi))

bitmap(text) == BitmapOf(text, 1, Len(text))

\* ------------------------------------------------------------------------
\* TextRenderer.render_text (mock-led-display.py, lines 52-77)
\* ------------------------------------------------------------------------
\* byte_val & (1 << k), as 0 or 1
Bit(byte_val, k) == (byte_val \div (2 ^ k)) % 2

\* a decoding that takes the bits of a byte least significant first
decode_lsb_first(buf, cols) ==
  IF cols = 0 THEN [r \in 1..LED_ROWS |-> << >>]
  ELSE [r \in 1..LED_ROWS |->
          [x \in 1..(cols * 8) |->
             Bit(buf[((x - 1) \div 8) * LED_ROWS + r], (x - 1) % 8)]]

\* rows of the grid decoded from buf: row r (1-based), pixel x (1-based) is
\* bit 7 - ((x-1) mod 8) of byte buf[c * LED_ROWS + r], c = (x-1) div 8
decode(buf, cols) ==
  IF cols = 0 THEN [r \in 1..LED_ROWS |-> << >>]
  ELSE [r \in 1..LED_ROWS |->
          [x \in 1..(cols * 8) |->
             Bit(buf[((x - 1) \div 8) * LED_ROWS + r], 7 - ((x - 1) % 8))]]

render_text(text) ==
  LET res == bitmap(text) IN
  IF ~res.ok THEN << >> ELSE decode(res.buf, res.cols)

\* ------------------------------------------------------------------------
\* DisplayState (mock-led-display.py, lines 81-98)
\* ------------------------------------------------------------------------
DisplayState_init ==
  [text |-> << >>, text_bitmap |-> << >>, text_width |-> 0, mode |-> "left",
   speed |-> 4, brightness |-> 100, color |-> "red",
   scroll_position |-> 0, is_running |-> FALSE]

\* a clear that leaves the grid, its width and the scroll position
clear_text_only(ds) == [ds EXCEPT !.text = << >>, !.is_running = FALSE]

clear(ds) ==
  [ds EXCEPT !.text = << >>, !.text_bitmap = << >>, !.text_width = 0,
             !.scroll_position = 0, !.is_running = FALSE]

\* ------------------------------------------------------------------------
\* LEDDisplayGUI._update_display (mock-led-display.py, lines 231-279):
\* the fill colour of every LED of the canvas, and the status label
\* ------------------------------------------------------------------------
on_color(ds) == IF ds.brightness * 2 < 100 THEN COLOR_DIM ELSE COLOR_ON

\* a static mode that does not centre the text
text_col_uncentred(ds, col) ==
  IF ds.mode = "static" THEN col
  ELSE col + ds.scroll_position - LED_COLS

\* a left scroll that starts with the text at the left edge
text_col_no_offset(ds, col) ==
  IF ds.mode = "static" THEN col - ((LED_COLS - ds.text_width) \div 2)
  ELSE col + ds.scroll_position

\* the source column (0-based) of viewport column col (0-based)
text_col(ds, col) ==
  IF ds.mode = "static" THEN col - ((LED_COLS - ds.text_width) \div 2)
  ELSE col + ds.scroll_position - LED_COLS

\* row and col are 0-based, as in the code
pixel_on(ds, row, col) ==
  LET tc == text_col(ds, col) IN
  /\ row < Len(ds.text_bitmap)
  /\ 0 <= tc
  /\ tc < Len(ds.text_bitmap[row + 1])
  /\ ds.text_bitmap[row + 1][tc + 1] = 1

Frame(ds) ==
  [row \in 1..LED_ROWS |->
     [col \in 1..LED_COLS |->
        IF ds.text = << >> THEN COLOR_OFF
        ELSE IF pixel_on(ds, row - 1, col - 1) THEN on_color(ds)
        ELSE COLOR_OFF]]

StatusOf(ds) ==
  IF Len(ds.text) > 30 THEN SubSeq(ds.text, 1, 30) \o <<".", ".", ".">>
  ELSE ds.text

AllOff == [row \in 1..LED_ROWS |-> [col \in 1..LED_COLS |-> COLOR_OFF]]

\* ------------------------------------------------------------------------
\* Texts of the program
\* ------------------------------------------------------------------------
\* 'LED Badge API Ready!' (mock-led-display.py, line 515)
INITIAL_TEXT ==
  << "L","E","D"," ","B","a","d","g","e"," ","A","P","I"," ","R","e","a",
     "d","y","!" >>

\* "Open LED Badge - Free, hackable, and fun! :star: :heart:" (line 423)
SUMMARY_TEXT ==
  << "O","p","e","n"," ","L","E","D"," ","B","a","d","g","e"," ","-"," ",
     "F","r","e","e",","," ","h","a","c","k","a","b","l","e",","," ","a",
     "n","d"," ","f","u","n","!"," ",":","s","t","a","r",":"," ",":","h",
     "e","a","r","t",":" >>

\* ------------------------------------------------------------------------
\* Texts of the requests the clients send
\* ------------------------------------------------------------------------
TEXT_EMPTY == << >>
TEXT_A == <<"A">>
TEXT_AB == <<"A", "B">>
\* a text whose grid (48 columns) is wider than the viewport
TEXT_WIDE == <<"A", "B", "C", "D", "E", "F">>
\* a numeric token other than slot 0: the validator accepts it, the
\* rasterizer has no bitmap for it
TEXT_SLOT9 == <<":", "9", ":">>
TEXT_UNKNOWN_ICON == <<"H", "i", " ", ":", "u", "f", "o", ":">>
TEXT_BAD_CHAR == <<"A", "\t">>
TEXT_NO_FILE == <<":", "x", ".", "p", "n", "g", ":">>

\* the texts that reach the rasterizer in this model, and render_text over
\* them, computed once
TEXTS ==
  {INITIAL_TEXT, SUMMARY_TEXT, TEXT_EMPTY, TEXT_A, TEXT_AB, TEXT_WIDE,
   TEXT_SLOT9}

RENDERED == [t \in TEXTS |-> render_text(t)]

\* _validate_display_string(summary), line 426
SUMMARY_CHECK == _validate_display_string(TRUE, SUMMARY_TEXT)

\* ------------------------------------------------------------------------
\* Request bodies of POST /display-text
\* ------------------------------------------------------------------------
Body(json, has_text, is_str, text) ==
  [json |-> json, has_text |-> has_text, is_str |-> is_str, text |-> text]

TextBodies ==
  {Body(TRUE, TRUE, TRUE, t) :
     t \in {TEXT_A, TEXT_SLOT9, TEXT_UNKNOWN_ICON,
            TEXT_BAD_CHAR, TEXT_NO_FILE}}

Bodies ==
  TextBodies \cup
  { Body(FALSE, FALSE, FALSE, << >>),   \* no JSON body
    Body(TRUE, FALSE, FALSE, << >>),    \* JSON object without 'text'
    Body(TRUE, TRUE, FALSE, << >>) }    \* 'text' is not a string

\* ------------------------------------------------------------------------
\* State
\* ------------------------------------------------------------------------
VARIABLES
  display_state,      \* the DisplayState shared by Flask and the GUI
  command_queue,      \* queue.Queue(): commands in flight, oldest first
  animation_running,  \* LEDDisplayGUI.animation_running
  leds,               \* fill colour of the canvas ovals, leds[row][col]
  status_text,        \* text shown by the status label (<< >> is "(none)")
  server_status,      \* the server status label
  after,              \* callbacks root.after() has scheduled
  gui_pc,             \* GUI thread: "idle" (in mainloop) or "draining"
  main_pc,            \* main(): where the main thread is
  server_pc,          \* run_flask_server: "starting" or "running"
  hpc,                \* per handler thread: where it is in its handler
  hreq,               \* per handler thread: the local variable text
  response,           \* per handler thread: the last response returned
  put_n,              \* history: number of put() calls so far
  applied_n,          \* history: number of commands the consumer took
  drained,            \* history: the commands taken in the current drain
  last_op,            \* history: the GUI's last step, the state it began in
  ticks,              \* history: _animate callbacks run by the mainloop
  requests,           \* history: requests received so far
  accepted,           \* history: requests whose update was queued
  call,               \* the function a harness calls: arguments and result
  api_globals,        \* api.py: the module globals main() sets
  badge               \* api.py: the LedNameBadge.write calls made so far

vars ==
  << display_state, command_queue, animation_running, leds, status_text,
     server_status, after, gui_pc, main_pc, server_pc, hpc, hreq, response,
     put_n, applied_n, drained, last_op, ticks, requests, accepted,
     call, api_globals, badge >>

gui_state == << display_state, leds, status_text, server_status, drained, last_op >>
handler_state == << hpc, hreq, response, requests, accepted >>

\* no function is being called on its own
NoCall == [fn |-> "none"]

\* api.py is not the program running: its globals are not set
NoGlobals == [_API_COMMAND_QUEUE |-> "unset", _API_WRITE_HARDWARE |-> "unset"]

NoResponse == [code |-> 0, error |-> "", details |-> "", status |-> ""]

Op(name) ==
  [name |-> name,
   scroll_position |-> display_state.scroll_position,
   text_width |-> display_state.text_width,
   is_running |-> display_state.is_running]

\* an entry of drained: the command taken, and the text _update_display
\* painted for it (painted is FALSE when the command repaints nothing)
Taken(command, painted, text) ==
  [command |-> command, painted |-> painted, text |-> text]

\* queue.Queue.put: appended at the tail (id is the history number of the put)
put(q, cmd) == Append(q, cmd)

\* a queue that hands out the newest command first
get_nowait_newest(q) == [item |-> q[Len(q)], rest |-> SubSeq(q, 1, Len(q) - 1)]

\* queue.Queue.get_nowait on a non-empty queue: the oldest command
get_nowait(q) == [item |-> Head(q), rest |-> Tail(q)]

UpdateCmd(data, n) == [type |-> "update", data |-> data, id |-> n]
ClearCmd(n) == [type |-> "clear", id |-> n]
StatusCmd(status, n) == [type |-> "server_status", status |-> status, id |-> n]

\* ------------------------------------------------------------------------
\* Init: main() has created DisplayState, the queue and the Flask app and is
\* about to run LEDDisplayGUI.__init__'s two first calls (lines 209-214)
\* ------------------------------------------------------------------------
Init ==
  /\ display_state = DisplayState_init
  /\ command_queue = << >>
  /\ animation_running = TRUE
  /\ leds = AllOff
  /\ status_text = << >>
  /\ server_status = "Server: Starting..."
  /\ after = {}
  /\ gui_pc = "idle"
  /\ main_pc = "init_animate"
  /\ server_pc = "starting"
  /\ hpc = [p \in Producers |-> "idle"]
  /\ hreq = [p \in Producers |-> << >>]
  /\ response = [p \in Producers |-> NoResponse]
  /\ put_n = 0
  /\ applied_n = 0
  /\ drained = << >>
  /\ last_op = [name |-> "init", scroll_position |-> 0, text_width |-> 0,
                is_running |-> FALSE]
  /\ ticks = 0
  /\ requests = 0
  /\ accepted = 0
  /\ call = NoCall
  /\ api_globals = NoGlobals
  /\ badge = << >>

\* ------------------------------------------------------------------------
\* LEDDisplayGUI._animate (lines 216-229)
\* ------------------------------------------------------------------------
\* a tick that wraps one step early
scroll_advance_early(ds) ==
  LET p == ds.scroll_position + 1 IN
  [ds EXCEPT !.scroll_position = IF p >= ds.text_width + LED_COLS THEN 0 ELSE p]

\* lines 223-225: the scroll position after one tick
scroll_advance(ds) ==
  LET p == ds.scroll_position + 1 IN
  [ds EXCEPT !.scroll_position = IF p > ds.text_width + LED_COLS THEN 0 ELSE p]

\* a tick that does not test the text: it advances on an empty text too
_animate_empty_text ==
  /\ gui_pc = "idle"
  /\ \/ main_pc = "init_animate"
     \/ main_pc = "mainloop" /\ "_animate" \in after
  /\ IF ~animation_running
     THEN /\ after' = after \ {"_animate"}
          /\ UNCHANGED << display_state, leds, status_text >>
     ELSE /\ after' = after \cup {"_animate"}
          /\ IF display_state.is_running
             THEN LET ds == scroll_advance(display_state) IN
                  /\ display_state' = ds
                  /\ leds' = Frame(ds)
                  /\ status_text' = StatusOf(ds)
             ELSE UNCHANGED << display_state, leds, status_text >>
  /\ main_pc' = IF main_pc = "init_animate" THEN "init_process" ELSE main_pc
  /\ last_op' = Op("_animate")
  /\ UNCHANGED << command_queue, animation_running, server_status, gui_pc,
                  server_pc, put_n, applied_n, drained >>
  /\ UNCHANGED handler_state
  /\ UNCHANGED << call, api_globals, badge >>

\* lines 216-229: one callback of the 75 ms timer
_animate ==
  /\ gui_pc = "idle"
  /\ \/ main_pc = "init_animate"
     \/ main_pc = "mainloop" /\ "_animate" \in after
  /\ IF ~animation_running
     THEN /\ after' = after \ {"_animate"}
          /\ UNCHANGED << display_state, leds, status_text >>
     ELSE /\ after' = after \cup {"_animate"}
          /\ IF display_state.is_running /\ display_state.text # << >>
             THEN LET ds == scroll_advance(display_state) IN
                  /\ display_state' = ds
                  /\ leds' = Frame(ds)
                  /\ status_text' = StatusOf(ds)
             ELSE UNCHANGED << display_state, leds, status_text >>
  /\ main_pc' = IF main_pc = "init_animate" THEN "init_process" ELSE main_pc
  /\ last_op' = Op("_animate")
  /\ UNCHANGED << command_queue, animation_running, server_status, gui_pc,
                  server_pc, put_n, applied_n, drained >>
  /\ UNCHANGED handler_state
  /\ UNCHANGED << call, api_globals, badge >>

\* _animate in a run of the whole server: the constructor's call, then the
\* mainloop's callbacks
animate_tick ==
  /\ main_pc = "mainloop" => ticks < MaxTicks
  /\ _animate
  /\ ticks' = IF main_pc = "mainloop" THEN ticks + 1 ELSE ticks

\* ------------------------------------------------------------------------
\* LEDDisplayGUI._process_commands (lines 281-316)
\* ------------------------------------------------------------------------
\* an update that leaves scroll_position where it was
apply_update_keep_scroll(ds, data) ==
  IF "text" \in DOMAIN data
  THEN LET bm == RENDERED[data.text] IN
       [ds EXCEPT !.text = data.text,
                  !.text_bitmap = bm,
                  !.text_width = IF bm # << >> THEN Len(bm[1]) ELSE 0,
                  !.is_running = TRUE,
                  !.mode = "left",
                  !.speed = 4,
                  !.brightness = 100,
                  !.color = "red"]
  ELSE ds

\* an update that does not start the animation
apply_update_not_running(ds, data) ==
  IF "text" \in DOMAIN data
  THEN LET bm == RENDERED[data.text] IN
       [ds EXCEPT !.text = data.text,
                  !.text_bitmap = bm,
                  !.text_width = IF bm # << >> THEN Len(bm[1]) ELSE 0,
                  !.scroll_position = 0,
                  !.mode = "left",
                  !.speed = 4,
                  !.brightness = 100,
                  !.color = "red"]
  ELSE ds

\* an update that takes mode, brightness and color from the command and
\* falls back to static, dimmed and amber
apply_update_overrides(ds, data) ==
  IF "text" \in DOMAIN data
  THEN LET bm == RENDERED[data.text] IN
       [ds EXCEPT !.text = data.text,
                  !.text_bitmap = bm,
                  !.text_width = IF bm # << >> THEN Len(bm[1]) ELSE 0,
                  !.scroll_position = 0,
                  !.is_running = TRUE,
                  !.mode = IF "mode" \in DOMAIN data THEN data.mode ELSE "static",
                  !.speed = 4,
                  !.brightness = IF "brightness" \in DOMAIN data
                                 THEN data.brightness ELSE 40,
                  !.color = IF "color" \in DOMAIN data THEN data.color ELSE "amber"]
  ELSE ds

\* an update that leaves text_width as it was
apply_update_stale_width(ds, data) ==
  IF "text" \in DOMAIN data
  THEN LET bm == RENDERED[data.text] IN
       [ds EXCEPT !.text = data.text,
                  !.text_bitmap = bm,
                  !.scroll_position = 0,
                  !.is_running = TRUE,
                  !.mode = "left",
                  !.speed = 4,
                  !.brightness = 100,
                  !.color = "red"]
  ELSE ds

\* lines 291-301: the fields an update command writes
apply_update(ds, data) ==
  IF "text" \in DOMAIN data
  THEN LET bm == RENDERED[data.text] IN
       [ds EXCEPT !.text = data.text,
                  !.text_bitmap = bm,
                  !.text_width = IF bm # << >> THEN Len(bm[1]) ELSE 0,
                  !.scroll_position = 0,
                  !.is_running = TRUE,
                  !.mode = "left",
                  !.speed = 4,
                  !.brightness = 100,
                  !.color = "red"]
  ELSE ds

\* the callback starts: the while loop of line 284 is entered
process_begin ==
  /\ gui_pc = "idle"
  /\ \/ main_pc = "init_process"
     \/ main_pc = "mainloop" /\ "_process_commands" \in after
  /\ gui_pc' = "draining"
  /\ after' = after \ {"_process_commands"}
  /\ UNCHANGED << command_queue, animation_running, main_pc, server_pc,
                  put_n, applied_n, ticks >>
  /\ UNCHANGED gui_state
  /\ UNCHANGED handler_state
  /\ UNCHANGED << call, api_globals, badge >>

\* one pass of the loop body: a command is taken and applied (lines 285-310)
apply_command ==
  /\ gui_pc = "draining"
  /\ command_queue # << >>
  /\ LET got == get_nowait(command_queue)
         command == got.item
     IN
     /\ command_queue' = got.rest
     /\ IF command.type = "update"
        THEN LET ds == apply_update(display_state, command.data) IN
             /\ display_state' = ds
             /\ leds' = Frame(ds)
             /\ status_text' = StatusOf(ds)
             /\ UNCHANGED server_status
        ELSE IF command.type = "clear"
        THEN LET ds == clear(display_state) IN
             /\ display_state' = ds
             /\ leds' = Frame(ds)
             /\ status_text' = StatusOf(ds)
             /\ UNCHANGED server_status
        ELSE /\ server_status' = command.status
             /\ UNCHANGED << display_state, leds, status_text >>
  /\ UNCHANGED << animation_running, after, gui_pc, main_pc, server_pc, put_n,
                  ticks >>
  /\ UNCHANGED handler_state
  /\ UNCHANGED << call, api_globals, badge >>

\* the pass, with its history: the command counted and noted in drained
process_command ==
  /\ apply_command
  /\ LET command == get_nowait(command_queue).item IN
     /\ applied_n' = applied_n + 1
     /\ last_op' = Op(command.type)
     /\ drained' =
          Append(drained,
                 IF command.type = "server_status"
                 THEN Taken(command, FALSE, << >>)
                 ELSE Taken(command, TRUE, display_state'.text))

\* a drain that waits on the empty queue (a blocking get)
process_wait ==
  /\ gui_pc = "draining"
  /\ command_queue = << >>
  /\ UNCHANGED vars

\* get_nowait raises queue.Empty: the callback reschedules itself and returns
process_empty ==
  /\ gui_pc = "draining"
  /\ command_queue = << >>
  /\ gui_pc' = "idle"
  /\ after' = after \cup {"_process_commands"}
  /\ main_pc' = IF main_pc = "init_process" THEN "initial_text" ELSE main_pc
  /\ drained' = << >>
  /\ UNCHANGED << display_state, leds, status_text, server_status, last_op,
                  command_queue, animation_running, server_pc, put_n,
                  applied_n, ticks >>
  /\ UNCHANGED handler_state
  /\ UNCHANGED << call, api_globals, badge >>

\* ------------------------------------------------------------------------
\* main() (lines 483-543) and run_flask_server (lines 464-476)
\* ------------------------------------------------------------------------
\* the server thread announces itself, then serves requests
run_flask_server ==
  /\ server_pc = "starting"
  /\ main_pc # "closed"
  /\ server_pc' = "running"
  /\ command_queue' =
       put(command_queue, StatusCmd("Server: Running on http://0.0.0.0:5000", put_n + 1))
  /\ put_n' = put_n + 1
  /\ UNCHANGED << animation_running, after, gui_pc, main_pc, applied_n,
                  ticks >>
  /\ UNCHANGED gui_state
  /\ UNCHANGED handler_state
  /\ UNCHANGED << call, api_globals, badge >>

\* lines 511-517: the initial demo text is queued, then the mainloop runs
main_initial_text ==
  /\ main_pc = "initial_text"
  /\ main_pc' = "mainloop"
  /\ command_queue' =
       put(command_queue, UpdateCmd([text |-> INITIAL_TEXT], put_n + 1))
  /\ put_n' = put_n + 1
  /\ UNCHANGED << animation_running, after, gui_pc, server_pc, applied_n,
                  ticks >>
  /\ UNCHANGED gui_state
  /\ UNCHANGED handler_state
  /\ UNCHANGED << call, api_globals, badge >>

\* LEDDisplayGUI.stop (lines 318-320)
stop(running) == FALSE

\* on_closing (lines 519-521): gui.stop(), then root.destroy() ends the
\* mainloop, main() returns and the process (daemon threads included) exits
on_closing ==
  /\ main_pc = "mainloop"
  /\ gui_pc = "idle"
  /\ animation_running' = stop(animation_running)
  /\ after' = {}
  /\ main_pc' = "closed"
  /\ UNCHANGED << command_queue, gui_pc, server_pc, put_n, applied_n,
                  ticks >>
  /\ UNCHANGED gui_state
  /\ UNCHANGED handler_state
  /\ UNCHANGED << call, api_globals, badge >>

\* ------------------------------------------------------------------------
\* POST /display-text: create_flask_app.update_display (lines 369-406)
\* ------------------------------------------------------------------------
\* the responses: the status code and the fields of the body; details is
\* "Missing 'text' field" or, for the message of an exception, "str(e)"
ErrorResponse(details) ==
  [code |-> 400, error |-> "Invalid display string format",
   details |-> details, status |-> ""]

OkResponse(status) == [code |-> 200, error |-> "", details |-> "", status |-> status]

\* app.run(threaded=True), line 476: a request is served on a thread of its
\* own; the threads are interchangeable, so the first idle one takes it
accepts(p) ==
  /\ server_pc = "running"
  /\ main_pc # "closed"
  /\ hpc[p] = "idle"
  /\ \A q \in Producers : hpc[q] = "idle" => ~Before(q, p)

\* a handler that skips _validate_display_string
update_display_check_unvalidated(body) ==
  IF ~body.json \/ ~body.has_text
  THEN [accept |-> FALSE, response |-> ErrorResponse("Missing 'text' field")]
  ELSE [accept |-> TRUE, response |-> OkResponse("Text displayed on LED")]

\* lines 373-383: what the handler decides before it touches the queue
update_display_check(body) ==
  IF ~body.json \/ ~body.has_text
  THEN [accept |-> FALSE, response |-> ErrorResponse("Missing 'text' field")]
  ELSE LET v == _validate_display_string(body.is_str, body.text) IN
       IF v # "ok"
       THEN [accept |-> FALSE, response |-> ErrorResponse("str(e)")]
       ELSE [accept |-> TRUE, response |-> OkResponse("Text displayed on LED")]

\* lines 373-394: the request is checked and, when valid, the update queued
update_display(p, body) ==
  /\ accepts(p)
  /\ requests < MaxRequests
  /\ requests' = requests + 1
  /\ LET out == update_display_check(body) IN
     IF out.accept
     THEN /\ command_queue' =
               put(command_queue,
                   UpdateCmd([text |-> body.text, mode |-> "left", speed |-> 4,
                              brightness |-> 100, color |-> "red"], put_n + 1))
          /\ put_n' = put_n + 1
          /\ accepted' = accepted + 1
          /\ hpc' = [hpc EXCEPT ![p] = "update_display"]
          /\ hreq' = [hreq EXCEPT ![p] = body.text]
          /\ response' = [response EXCEPT ![p] = NoResponse]
     ELSE /\ response' = [response EXCEPT ![p] = out.response]
          /\ UNCHANGED << command_queue, put_n, hpc, hreq, accepted >>
  /\ UNCHANGED << animation_running, after, gui_pc, main_pc, server_pc,
                  applied_n, ticks >>
  /\ UNCHANGED gui_state
  /\ UNCHANGED << call, api_globals, badge >>

\* lines 397-403: the handler's thread writes display_state itself, then
\* returns the response
update_display_return(p) ==
  /\ hpc[p] = "update_display"
  /\ display_state' = [display_state EXCEPT !.text = hreq[p], !.mode = "left",
                                            !.speed = 4, !.brightness = 100,
                                            !.color = "red"]
  /\ hpc' = [hpc EXCEPT ![p] = "idle"]
  /\ response' = [response EXCEPT ![p] = OkResponse("Text displayed on LED")]
  /\ UNCHANGED << command_queue, animation_running, leds, status_text,
                  server_status, after, gui_pc, main_pc, server_pc, hreq,
                  put_n, applied_n, drained, last_op, ticks, requests,
                  accepted, call, api_globals, badge >>

\* ------------------------------------------------------------------------
\* POST /display-summary: create_flask_app.display_summary (lines 419-436)
\* ------------------------------------------------------------------------
\* lines 423-430
display_summary(p) ==
  /\ accepts(p)
  /\ requests < MaxRequests
  /\ requests' = requests + 1
  /\ LET v == SUMMARY_CHECK IN
     IF v = "ok"
     THEN /\ command_queue' =
               put(command_queue,
                   UpdateCmd([text |-> SUMMARY_TEXT, mode |-> "left", speed |-> 4],
                             put_n + 1))
          /\ put_n' = put_n + 1
          /\ accepted' = accepted + 1
          /\ hpc' = [hpc EXCEPT ![p] = "display_summary"]
          /\ hreq' = [hreq EXCEPT ![p] = SUMMARY_TEXT]
          /\ response' = [response EXCEPT ![p] = NoResponse]
     ELSE /\ response' = [response EXCEPT ![p] = ErrorResponse("str(e)")]
          /\ UNCHANGED << command_queue, put_n, hpc, hreq, accepted >>
  /\ UNCHANGED << animation_running, after, gui_pc, main_pc, server_pc,
                  applied_n, ticks >>
  /\ UNCHANGED gui_state
  /\ UNCHANGED << call, api_globals, badge >>

\* lines 431-434: the handler's thread writes display_state itself, then
\* returns the response
display_summary_return(p) ==
  /\ hpc[p] = "display_summary"
  /\ display_state' = [display_state EXCEPT !.text = hreq[p], !.mode = "left",
                                            !.speed = 4]
  /\ hpc' = [hpc EXCEPT ![p] = "idle"]
  /\ response' = [response EXCEPT ![p] = OkResponse("Summary displayed on LED")]
  /\ UNCHANGED << command_queue, animation_running, leds, status_text,
                  server_status, after, gui_pc, main_pc, server_pc, hreq,
                  put_n, applied_n, drained, last_op, ticks, requests,
                  accepted, call, api_globals, badge >>

\* ------------------------------------------------------------------------
\* The whole server
\* ------------------------------------------------------------------------
Next ==
  \/ animate_tick
  \/ process_begin
  \/ process_command
  \/ process_empty
  \/ run_flask_server
  \/ main_initial_text
  \/ \E p \in Producers : \E body \in Bodies : update_display(p, body)
  \/ \E p \in Producers : update_display_return(p)
  \/ \E p \in Producers : display_summary(p)
  \/ \E p \in Producers : display_summary_return(p)

Spec == Init /\ [][Next]_vars

\* ------------------------------------------------------------------------
\* The render loop alone: the GUI callbacks, started in any state a run of
\* the server can have brought the display to, with commands waiting
\* ------------------------------------------------------------------------
LoopTexts == {TEXT_EMPTY, TEXT_A, TEXT_AB, TEXT_SLOT9}

\* the display after the consumer applied an update of text t and, while it
\* was animating, s animation ticks passed
Shown(t, s) ==
  [apply_update(DisplayState_init, [text |-> t]) EXCEPT !.scroll_position = s]

ScrollRange(t) ==
  IF t = << >> THEN {0}
  ELSE 0..(Shown(t, 0).text_width + LED_COLS)

\* the states the consumer leaves, and those states with display_state.text
\* overwritten by a request handler (line 397)
LoopStates ==
  {DisplayState_init}
  \cup {Shown(t, s) : <<t, s>> \in {x \in LoopTexts \X (0..(16 + LED_COLS)) :
                                     x[2] \in ScrollRange(x[1])}}

\* the commands that write display_state
LoopCommands(n) ==
  {UpdateCmd([text |-> t], n) : t \in LoopTexts} \cup {ClearCmd(n)}

\* the queues of at most MaxQueue commands, numbered in order
RECURSIVE LoopQueues(_)
LoopQueues(n) ==
  IF n = 0 THEN {<< >>}
  ELSE LET shorter == LoopQueues(n - 1) IN
       shorter \cup {Append(q, c) : <<q, c>> \in
                       {x \in shorter \X LoopCommands(n) : Len(x[1]) = n - 1}}

LoopInit ==
  /\ \E painted \in LoopStates : \E written \in {"none", "empty", "A"} :
       /\ display_state =
            IF written = "none" THEN painted
            ELSE [painted EXCEPT !.text = IF written = "A" THEN TEXT_A ELSE << >>]
       /\ leds = Frame(painted)
       /\ status_text = StatusOf(painted)
  /\ command_queue \in LoopQueues(MaxQueue)
  /\ put_n = Len(command_queue)
  /\ applied_n = 0
  /\ animation_running = TRUE
  /\ server_status = "Server: Starting..."
  /\ after = {"_animate", "_process_commands"}
  /\ gui_pc = "idle"
  /\ main_pc = "mainloop"
  /\ server_pc = "running"
  /\ hpc = [p \in Producers |-> "idle"]
  /\ hreq = [p \in Producers |-> << >>]
  /\ response = [p \in Producers |-> NoResponse]
  /\ drained = << >>
  /\ last_op = [name |-> "init", scroll_position |-> 0, text_width |-> 0,
                is_running |-> FALSE]
  /\ ticks = 0
  /\ requests = 0
  /\ accepted = 0
  /\ call = NoCall
  /\ api_globals = NoGlobals
  /\ badge = << >>

\* the mainloop's _animate callback
animate_loop ==
  /\ _animate
  /\ UNCHANGED ticks

NextLoop ==
  \/ animate_loop
  \/ process_begin
  \/ process_command
  \/ process_empty

SpecLoop == LoopInit /\ [][NextLoop]_vars

\* ------------------------------------------------------------------------
\* Properties
\* ------------------------------------------------------------------------
\* a step of the render loop: a command applied, or an _animate callback
ConsumerStep ==
  \/ applied_n' # applied_n
  \/ ticks' # ticks
  \/ main_pc = "init_animate" /\ main_pc' = "init_process"

\* C1: every write to a field of display_state is made by the render loop;
\* a request handler only queues a command and writes no field
SingleWriter == [][display_state' # display_state => ConsumerStep]_vars

\* the commands put so far: one per accepted request, the server's status
\* and main()'s initial text
Puts ==
  accepted + (IF server_pc = "running" THEN 1 ELSE 0)
           + (IF main_pc = "mainloop" THEN 1 ELSE 0)

\* C2: the queue receives exactly one command per accepted request (and
\* startup put); the consumer has applied the first applied_n of them, each
\* once and in the order they were put, and the rest wait in that order
FifoExactlyOnce ==
  /\ put_n = Puts
  /\ put_n = applied_n + Len(command_queue)
  /\ \A i \in 1..Len(command_queue) : command_queue[i].id = applied_n + i
  /\ \A j \in 1..Len(drained) :
       drained[j].command.id = applied_n - Len(drained) + j

\* two requests were served at the same time and every command put has
\* been applied
FifoDrained ==
  /\ accepted = 2
  /\ hpc["h2"] # "idle"
  /\ put_n = 4
  /\ applied_n = put_n
  /\ command_queue = << >>

\* a body whose 'text' _validate_display_string rejects
Rejected(body) ==
  /\ body.json
  /\ body.has_text
  /\ _validate_display_string(body.is_str, body.text) # "ok"

\* C3: a /display-text request whose text fails validation gets the error
\* response; nothing is queued and display_state is left as it was
InvalidTextNoEffect ==
  [][\A p \in Producers : \A body \in Bodies :
       (Rejected(body) /\ update_display(p, body)) =>
         /\ command_queue' = command_queue
         /\ display_state' = display_state
         /\ response'[p].code = 400
         /\ response'[p].error = "Invalid display string format"]_vars

\* a request was answered with the validation error and nothing was queued
InvalidTextAnswered ==
  /\ response["h1"] = ErrorResponse("str(e)")
  /\ requests = 1
  /\ accepted = 0
  /\ put_n = Puts

\* C4: when one drain takes exactly two updates of different texts, the
\* state ends with the second one's text and grid, and the renderer is
\* never run on the first one's text
CoalescedUpdates ==
  ( /\ gui_pc = "draining"
    /\ command_queue = << >>
    /\ Len(drained) = 2
    /\ \A j \in 1..2 : drained[j].command.type = "update"
    /\ drained[1].command.data.text # drained[2].command.data.text )
  => /\ display_state.text_bitmap = RENDERED[drained[2].command.data.text]
     /\ \A j \in 1..2 :
          drained[j].painted => drained[j].text = drained[2].command.data.text

\* the consumer takes an update whose text the rasterizer fails on
RasterFailureStep ==
  /\ gui_pc = "draining"
  /\ command_queue # << >>
  /\ Head(command_queue).type = "update"
  /\ "text" \in DOMAIN Head(command_queue).data
  /\ ~bitmap(Head(command_queue).data.text).ok
  /\ applied_n' = applied_n + 1

\* C5: an update whose rasterization fails is ignored: text, grid, width,
\* scroll position and running keep their values
RasterFailureIgnored ==
  [][RasterFailureStep =>
       /\ display_state'.text = display_state.text
       /\ display_state'.text_bitmap = display_state.text_bitmap
       /\ display_state'.text_width = display_state.text_width
       /\ display_state'.scroll_position = display_state.scroll_position
       /\ display_state'.is_running = display_state.is_running]_vars

\* C6: the width is 0 exactly when the text is empty
WidthZeroIffEmpty ==
  (display_state.text_width = 0) <=> (display_state.text = << >>)

\* C7: the scroll position stays within 0..text_width + LED_COLS
ScrollInRange ==
  /\ display_state.scroll_position >= 0
  /\ display_state.scroll_position <= display_state.text_width + LED_COLS

\* a narrower text replaced a wider one whose scroll position was beyond
\* the new bound
NarrowerReplaced ==
  /\ last_op.name = "update"
  /\ last_op.text_width > display_state.text_width
  /\ last_op.scroll_position > display_state.text_width + LED_COLS
  /\ display_state.text = TEXT_A

\* C8: after an operation that changes the text the scroll position is 0
TextChangeResetsScroll ==
  [][display_state'.text # display_state.text =>
       display_state'.scroll_position = 0]_vars

\* the placement formula (lines 251-272) lights no cell of ds in mode m
NoCellOn(ds, m) ==
  \A row \in 0..(LED_ROWS - 1) : \A col \in 0..(LED_COLS - 1) :
    ~pixel_on([ds EXCEPT !.mode = m], row, col)

\* C9: after a clear the text is empty, the width and scroll position are
\* 0, running is false, and every cell is off in both display modes
ClearedIsBlank ==
  last_op.name = "clear" =>
    /\ display_state.text = << >>
    /\ display_state.text_bitmap = << >>
    /\ display_state.text_width = 0
    /\ display_state.scroll_position = 0
    /\ ~display_state.is_running
    /\ leds = AllOff
    /\ \A m \in {"left", "static"} :
         /\ NoCellOn(display_state, m)
         /\ Frame([display_state EXCEPT !.mode = m]) = AllOff

\* a scrolling text was cleared
ScrollingCleared ==
  /\ last_op.name = "clear"
  /\ last_op.is_running
  /\ last_op.scroll_position > 0
  /\ last_op.text_width > 0
  /\ display_state.scroll_position = 0

\* C10: a tick while running with a non-empty text advances the scroll
\* position by exactly 1, or wraps it to 0 from text_width + LED_COLS; it
\* never leaves it above that bound
TickAdvances ==
  [][(_animate /\ animation_running /\ display_state.is_running
               /\ display_state.text # << >>) =>
       /\ display_state'.scroll_position =
            IF display_state.scroll_position
                 = display_state.text_width + LED_COLS
            THEN 0 ELSE display_state.scroll_position + 1
       /\ display_state'.scroll_position
            <= display_state'.text_width + LED_COLS]_vars

\* a tick wrapped the scroll position of a running text to 0
TickWrapped ==
  /\ last_op.name = "_animate"
  /\ last_op.is_running
  /\ last_op.text_width > 0
  /\ last_op.scroll_position = last_op.text_width + LED_COLS
  /\ display_state.text # << >>
  /\ display_state.scroll_position = 0

\* ------------------------------------------------------------------------
\* LEDDisplayGUI._update_display alone: one repaint of a display_state whose
\* text, mode, scroll position and brightness are drawn from small sets
\* ------------------------------------------------------------------------
PaintTexts == {TEXT_A, TEXT_AB, TEXT_WIDE}

PaintStates ==
  {[Shown(x[1], x[2]) EXCEPT !.mode = x[3], !.brightness = x[4]] :
     x \in {y \in PaintTexts \X (0..(48 + LED_COLS)) \X {"static", "left"}
                  \X {100, 40} : y[2] \in ScrollRange(y[1])}}
  \cup {DisplayState_init}

PaintInit ==
  /\ display_state \in PaintStates
  /\ leds = AllOff
  /\ status_text = << >>
  /\ command_queue = << >>
  /\ put_n = 0
  /\ applied_n = 0
  /\ animation_running = TRUE
  /\ server_status = "Server: Starting..."
  /\ after = {}
  /\ gui_pc = "_update_display"
  /\ main_pc = "mainloop"
  /\ server_pc = "running"
  /\ hpc = [p \in Producers |-> "idle"]
  /\ hreq = [p \in Producers |-> << >>]
  /\ response = [p \in Producers |-> NoResponse]
  /\ drained = << >>
  /\ last_op = [name |-> "init", scroll_position |-> 0, text_width |-> 0,
                is_running |-> FALSE]
  /\ ticks = 0
  /\ requests = 0
  /\ accepted = 0
  /\ call = NoCall
  /\ api_globals = NoGlobals
  /\ badge = << >>

\* lines 231-279: the canvas and the status label are repainted
_update_display ==
  /\ gui_pc = "_update_display"
  /\ gui_pc' = "idle"
  /\ leds' = Frame(display_state)
  /\ status_text' = StatusOf(display_state)
  /\ last_op' = Op("_update_display")
  /\ UNCHANGED << display_state, command_queue, animation_running,
                  server_status, after, main_pc, server_pc, put_n, applied_n,
                  drained, ticks >>
  /\ UNCHANGED handler_state
  /\ UNCHANGED << call, api_globals, badge >>

NextPaint == _update_display

SpecPaint == PaintInit /\ [][NextPaint]_vars

\* the canvas shows a repaint of display_state in mode m
Painted(m) ==
  /\ last_op.name = "_update_display"
  /\ display_state.mode = m
  /\ display_state.text # << >>

\* viewport cell (row, col), 0-based, is lit on the canvas
Lit(row, col) == leds[row + 1][col + 1] # COLOR_OFF

\* cell (row, sc), 0-based, of the grid is on
GridOn(row, sc) ==
  /\ 0 <= sc
  /\ sc < display_state.text_width
  /\ display_state.text_bitmap[row + 1][sc + 1] = 1

\* C11: in static mode with a non-empty text, cell (row, col) is lit iff
\* source column col - (LED_COLS - width) div 2 is inside the grid and on
\* there, for every width; for width 16 source column 0 is at column 14
StaticPlacement ==
  Painted("static") =>
    /\ \A row \in 0..(LED_ROWS - 1) : \A col \in 0..(LED_COLS - 1) :
         Lit(row, col) <=>
           GridOn(row, col - ((LED_COLS - display_state.text_width) \div 2))
    /\ display_state.text_width = 16 =>
         \A row \in 0..(LED_ROWS - 1) :
           /\ \A col \in 0..13 : ~Lit(row, col)
           /\ Lit(row, 14) <=> GridOn(row, 0)

\* a text wider than the viewport was painted in static mode, with a lit
\* cell in the leftmost column
StaticWidePainted ==
  /\ Painted("static")
  /\ display_state.text_width > LED_COLS
  /\ \E row \in 0..(LED_ROWS - 1) : Lit(row, 0)

\* C12: in left-scroll mode with a non-empty text, cell (row, col) is lit
\* iff source column col + scroll_position - LED_COLS is inside the grid and
\* on there; a source column enters at the rightmost column, the frame of
\* the next scroll position is this one moved one column left, and the
\* viewport is all off at scroll positions 0 and width + LED_COLS
LeftScrollPlacement ==
  Painted("left") =>
    LET s == display_state.scroll_position
        w == display_state.text_width
    IN
    /\ \A row \in 0..(LED_ROWS - 1) : \A col \in 0..(LED_COLS - 1) :
         Lit(row, col) <=> GridOn(row, col + s - LED_COLS)
    /\ \A row \in 0..(LED_ROWS - 1) :
         (s >= 1 /\ s <= w) => (Lit(row, LED_COLS - 1) <=> GridOn(row, s - 1))
    /\ s < w + LED_COLS =>
         LET next == Frame([display_state EXCEPT !.scroll_position = s + 1]) IN
         \A row \in 1..LED_ROWS : \A col \in 1..(LED_COLS - 1) :
           next[row][col] = leds[row][col + 1]
    /\ (s = 0 \/ s = w + LED_COLS) =>
         \A row \in 0..(LED_ROWS - 1) : \A col \in 0..(LED_COLS - 1) :
           ~Lit(row, col)

\* source column 0 was painted at the rightmost column, lit
LeftScrollEntered ==
  /\ Painted("left")
  /\ display_state.scroll_position = 1
  /\ \E row \in 0..(LED_ROWS - 1) : Lit(row, LED_COLS - 1) /\ GridOn(row, 0)

\* ------------------------------------------------------------------------
\* Functions called on their own: the server is not running, call holds the
\* arguments and, once the function has returned, its result
\* ------------------------------------------------------------------------
Detached ==
  /\ display_state = DisplayState_init
  /\ leds = AllOff
  /\ status_text = << >>
  /\ command_queue = << >>
  /\ put_n = 0
  /\ applied_n = 0
  /\ animation_running = TRUE
  /\ server_status = "Server: Starting..."
  /\ after = {}
  /\ gui_pc = "idle"
  /\ main_pc = "init_animate"
  /\ server_pc = "starting"
  /\ hpc = [p \in Producers |-> "idle"]
  /\ hreq = [p \in Producers |-> << >>]
  /\ response = [p \in Producers |-> NoResponse]
  /\ drained = << >>
  /\ last_op = [name |-> "init", scroll_position |-> 0, text_width |-> 0,
                is_running |-> FALSE]
  /\ ticks = 0
  /\ requests = 0
  /\ accepted = 0
  /\ api_globals = NoGlobals
  /\ badge = << >>

DetachedUnchanged ==
  /\ UNCHANGED << command_queue, animation_running, after, gui_pc, main_pc,
                  server_pc, put_n, applied_n, ticks >>
  /\ UNCHANGED gui_state
  /\ UNCHANGED handler_state
  /\ UNCHANGED << api_globals, badge >>

\* ------------------------------------------------------------------------
\* TextRenderer.render_text, lines 61-77, on the (buf, cols) that
\* creator.bitmap returned: buffers of cols * LED_ROWS bytes
\* ------------------------------------------------------------------------
\* the buffer of a pattern: 0 is all bytes 0, 1 is all bytes 255 (every
\* pixel lit), the others mix the bits
PatternByte(seed, i) ==
  IF seed = 0 THEN 0
  ELSE IF seed = 1 THEN 255
  ELSE (seed * 37 + i * 58 + seed * i * 14) % 256

Buffer(seed, cols) == [i \in 1..(cols * LED_ROWS) |-> PatternByte(seed, i)]

DecodeInit ==
  /\ Detached
  /\ \E seed \in 0..MaxSeed : \E cols \in 0..MaxCols :
       call = [fn |-> "render_text", buf |-> Buffer(seed, cols), cols |-> cols,
               done |-> FALSE, rows |-> << >>]

render_text_decode ==
  /\ call.fn = "render_text"
  /\ ~call.done
  /\ call' = [call EXCEPT !.done = TRUE, !.rows = decode(call.buf, call.cols)]
  /\ DetachedUnchanged

NextDecode == render_text_decode

SpecDecode == DecodeInit /\ [][NextDecode]_vars

\* C13: a buffer of cols * LED_ROWS bytes decodes to LED_ROWS rows of
\* cols * 8 pixels; pixel (r, c*8+bit) is on iff bit 7-bit of byte
\* buf[c*LED_ROWS + r] is set; cols = 0 gives LED_ROWS empty rows; one fully
\* lit column group gives every row on in columns 0..7
DecodeLayout ==
  (call.fn = "render_text" /\ call.done) =>
    /\ Len(call.buf) = call.cols * LED_ROWS
    /\ Len(call.rows) = LED_ROWS
    /\ \A r \in 0..(LED_ROWS - 1) :
         /\ Len(call.rows[r + 1]) = call.cols * 8
         /\ \A c \in 0..(call.cols - 1) : \A bit \in 0..7 :
              (call.rows[r + 1][c * 8 + bit + 1] = 1)
                <=> ((call.buf[c * LED_ROWS + r + 1] \div (2 ^ (7 - bit))) % 2 = 1)
         /\ \A x \in 1..(call.cols * 8) : call.rows[r + 1][x] \in {0, 1}
    /\ call.cols = 0 => \A r \in 1..LED_ROWS : call.rows[r] = << >>
    /\ (call.cols = 1 /\ \A i \in 1..LED_ROWS : call.buf[i] = 255) =>
         \A r \in 1..LED_ROWS : call.rows[r] = <<1, 1, 1, 1, 1, 1, 1, 1>>

\* a buffer of two column groups with mixed bits was decoded: the most
\* significant bit of its first byte is pixel 0 of row 0
DecodedMixed ==
  /\ call.fn = "render_text"
  /\ call.done
  /\ call.cols = 2
  /\ call.buf[1] = 128 + (call.buf[1] % 128)
  /\ call.buf[1] % 2 = 0
  /\ call.rows[1][1] = 1
  /\ call.rows[1][8] = 0

\* ------------------------------------------------------------------------
\* _validate_display_string on its own: texts made of at most MaxPieces
\* pieces (characters and tokens of every kind the validator tells apart)
\* ------------------------------------------------------------------------
TEXT_HELLO ==
  << "H","e","l","l","o"," ",":","u","n","k","n","o","w","n","_","i","c",
     "o","n",":" >>
TEXT_HI == << "H","i","\n",":","0",":" >>

Pieces ==
  { <<"A">>, <<" ">>, <<"\n">>, <<"\r">>, <<"\t">>, <<":">>, <<":",":">>,
    <<":","0",":">>, <<":","1","2",":">>, <<":","0","\n",":">>,
    <<":","s","t","a","r",":">>, <<":","u","f","o",":">>,
    <<":","a",".","p","n","g",":">>, <<":","x",".","p","n","g",":">>,
    <<":","1",".","5",":">>, <<"0">> }

RECURSIVE PieceTexts(_)
PieceTexts(n) ==
  IF n = 0 THEN {<< >>}
  ELSE LET shorter == PieceTexts(n - 1) IN
       shorter \cup {x[1] \o x[2] : x \in shorter \X Pieces}

ValidateInit ==
  /\ Detached
  /\ \E text \in PieceTexts(MaxPieces) \cup {TEXT_HELLO, TEXT_HI} :
       call = [fn |-> "_validate_display_string", text |-> text,
               done |-> FALSE, result |-> ""]

validate_call ==
  /\ call.fn = "_validate_display_string"
  /\ ~call.done
  /\ call' = [call EXCEPT !.done = TRUE,
                          !.result = _validate_display_string(TRUE, call.text)]
  /\ DetachedUnchanged

NextValidate == validate_call

SpecValidate == ValidateInit /\ [][NextValidate]_vars

\* a name made of digits only
AllDigits(name) == Len(name) > 0 /\ \A i \in 1..Len(name) : name[i] \in Digits

\* the grammar: every token is empty, all digits, a file that exists, or a
\* builtin icon; every other character is a line break or supported
InGrammar(text) ==
  /\ \A k \in 1..Len(Tokens(text)) :
       LET name == Tokens(text)[k] IN
       \/ name = << >>
       \/ AllDigits(name)
       \/ "." \in Range(name) /\ name \in ExistingFiles
       \/ name \in BUILTIN_ICON_NAMES
  /\ \A k \in 1..Len(StripTokens(text)) :
       LET ch == StripTokens(text)[k] IN
       ch = "\n" \/ ch = "\r" \/ ch \in SUPPORTED_CHARS

\* C14: the validator accepts a text iff it is in the grammar; it rejects
\* "Hello :unknown_icon:" with the unknown-icon error and accepts "Hi\n:0:"
ValidatorGrammar ==
  (call.fn = "_validate_display_string" /\ call.done) =>
    /\ (call.result = "ok") <=> InGrammar(call.text)
    /\ call.text = TEXT_HELLO => call.result = "KeyError: Unknown builtin icon"
    /\ call.text = TEXT_HI => call.result = "ok"

\* ------------------------------------------------------------------------
\* POST /display-text of api.py (display_text, lines 44-63) next to the mock
\* server's, on the same request body
\* ------------------------------------------------------------------------
\* the status codes of Flask's own error response when request.get_json()
\* finds no JSON body (line 46, outside the try): 415 or 400 from
\* get_json, 500 from data.get on None, depending on the Flask version
FlaskErrorCodes == {400, 415, 500}

FlaskError(code) == [code |-> code, error |-> "", details |-> "", status |-> ""]

\* lines 46-63: what api.py decides for a body; write is whether it goes on
\* to _process_and_write, which in mock mode queues the update (line 38)
api_display_text(body, code) ==
  IF ~body.json
  THEN [accept |-> FALSE, response |-> FlaskError(code)]
  ELSE LET text == IF body.has_text THEN body.text ELSE << >> IN
       IF body.has_text /\ ~body.is_str
       THEN [accept |-> FALSE, response |-> ErrorResponse("str(e)")]
       ELSE IF ~bitmap(text).ok
       THEN [accept |-> FALSE, response |-> ErrorResponse("str(e)")]
       ELSE [accept |-> TRUE, response |-> OkResponse("Text displayed on LED")]

ParityBodies ==
  {Body(TRUE, TRUE, TRUE, t) : t \in PieceTexts(MaxPieces)}
  \cup { Body(FALSE, FALSE, FALSE, << >>),
         Body(TRUE, FALSE, FALSE, << >>),
         Body(TRUE, TRUE, FALSE, << >>) }

ParityInit ==
  /\ Detached
  /\ \E body \in ParityBodies :
       call = [fn |-> "display_text", body |-> body, done |-> FALSE,
               mock |-> [accept |-> FALSE, response |-> NoResponse],
               api |-> [accept |-> FALSE, response |-> NoResponse]]

\* the same request is sent to both servers
display_text_both ==
  /\ call.fn = "display_text"
  /\ ~call.done
  /\ \E code \in FlaskErrorCodes :
       call' = [call EXCEPT !.done = TRUE,
                            !.mock = update_display_check(call.body),
                            !.api = api_display_text(call.body, code)]
  /\ DetachedUnchanged

NextParity == display_text_both

SpecParity == ParityInit /\ [][NextParity]_vars

\* the fields a response body has
Shape(r) == [error |-> r.error # "", details |-> r.details # "",
             status |-> r.status # ""]

\* C15: for every request body the mock's /display-text and api.py's return
\* the same status code and response shape, and the mock queues an update
\* exactly when api.py does
MockMimicsApi ==
  (call.fn = "display_text" /\ call.done) =>
    /\ call.mock.response.code = call.api.response.code
    /\ Shape(call.mock.response) = Shape(call.api.response)
    /\ call.mock.accept = call.api.accept

\* ------------------------------------------------------------------------
\* The render loop with its stop signal: LEDDisplayGUI.stop() is called
\* between two callbacks
\* ------------------------------------------------------------------------
gui_stop ==
  /\ gui_pc = "idle"
  /\ animation_running
  /\ animation_running' = stop(animation_running)
  /\ UNCHANGED << command_queue, after, gui_pc, main_pc, server_pc, put_n,
                  applied_n, ticks >>
  /\ UNCHANGED gui_state
  /\ UNCHANGED handler_state
  /\ UNCHANGED << call, api_globals, badge >>

NextStop ==
  \/ animate_loop
  \/ process_begin
  \/ process_command
  \/ process_empty
  \/ gui_stop

SpecStop == LoopInit /\ [][NextStop]_vars

Animating ==
  /\ animation_running
  /\ display_state.is_running
  /\ display_state.text # << >>

LiveInit ==
  /\ LoopInit
  /\ Animating
  /\ Len(command_queue) <= MaxLiveQueue
  /\ \A i \in 1..Len(command_queue) :
       /\ command_queue[i].type = "update"
       /\ command_queue[i].data.text # << >>

SpecLive ==
  /\ LiveInit
  /\ [][NextLoop]_vars
  /\ SF_vars(animate_loop)
  /\ WF_vars(process_begin)
  /\ WF_vars(process_command)
  /\ WF_vars(process_empty)

\* C17: while a text is scrolling the scroll position advances infinitely
\* often and is back at 0 infinitely often, whether or not the queue is
\* empty: the drain never waits
ScrollCyclesForever ==
  /\ []<>(command_queue = << >> /\ display_state.scroll_position = 0)
  /\ []<>(command_queue = << >>
          /\ display_state.scroll_position
               = display_state.text_width + LED_COLS)
  /\ []<><<display_state'.scroll_position
             = display_state.scroll_position + 1>>_vars

\* with the queue empty, a drain has started and returned and a tick has
\* wrapped the scroll position
DrainedAndWrapped ==
  /\ command_queue = << >>
  /\ applied_n = put_n
  /\ gui_pc = "idle"
  /\ "_process_commands" \in after
  /\ Animating
  /\ last_op.name = "_animate"
  /\ last_op.scroll_position = display_state.text_width + LED_COLS
  /\ display_state.scroll_position = 0

\* ------------------------------------------------------------------------
\* The render loop while producers keep putting: requests arrive without
\* end, so no history is kept (the counters and drained stay as they are).
\* The queue holds at most MaxFlood commands at a time.
\* ------------------------------------------------------------------------
FloodTexts == {TEXT_A, TEXT_AB}

\* POST /display-text with a valid text, from the put of line 394 to the
\* writes of lines 397-401
flood_request ==
  /\ server_pc = "running"
  /\ Len(command_queue) < MaxFlood
  /\ \E text \in FloodTexts :
       /\ command_queue' =
            put(command_queue,
                UpdateCmd([text |-> text, mode |-> "left", speed |-> 4,
                           brightness |-> 100, color |-> "red"], 0))
       /\ display_state' = [display_state EXCEPT !.text = text, !.mode = "left",
                                                 !.speed = 4, !.brightness = 100,
                                                 !.color = "red"]
  /\ UNCHANGED << animation_running, leds, status_text, server_status, after,
                  gui_pc, main_pc, server_pc, put_n, applied_n, drained,
                  last_op, ticks >>
  /\ UNCHANGED handler_state
  /\ UNCHANGED << call, api_globals, badge >>

\* one pass of the drain's loop body, not recorded
flood_command ==
  /\ apply_command
  /\ UNCHANGED << applied_n, drained, last_op >>

FloodInit ==
  /\ LoopInit
  /\ command_queue = << >>
  /\ Animating
  /\ display_state.text \in FloodTexts
  /\ display_state.text_bitmap = RENDERED[display_state.text]
  /\ display_state.scroll_position = 0

NextFlood ==
  \/ animate_loop
  \/ process_begin
  \/ flood_command
  \/ process_empty
  \/ flood_request

SpecFlood ==
  /\ FloodInit
  /\ [][NextFlood]_vars
  /\ SF_vars(animate_loop)
  /\ WF_vars(process_begin)
  /\ WF_vars(flood_command)
  /\ WF_vars(process_empty)

\* C18: whatever the producers put, every drain pass comes to its end and
\* the animation tick is executed again and again
DrainTerminates ==
  /\ (gui_pc = "draining") ~> (gui_pc = "idle")
  /\ []<><<animate_loop>>_vars

\* the consumer takes an update whose text the rasterizer succeeds on
RasterSuccessStep ==
  /\ gui_pc = "draining"
  /\ command_queue # << >>
  /\ Head(command_queue).type = "update"
  /\ "text" \in DOMAIN Head(command_queue).data
  /\ bitmap(Head(command_queue).data.text).ok
  /\ applied_n' = applied_n + 1

\* C19: applying an update whose rasterization succeeds gives the command's
\* text, the grid decoded from the rasterizer's buffer, that grid's number
\* of columns as width, scroll position 0 and running, from any state
UpdateInstalls ==
  [][RasterSuccessStep =>
       LET text == Head(command_queue).data.text
           res == bitmap(text)
       IN
       /\ display_state'.text = text
       /\ display_state'.text_bitmap = decode(res.buf, res.cols)
       /\ display_state'.text_width = res.cols * 8
       /\ \A r \in 1..LED_ROWS :
            Len(display_state'.text_bitmap[r]) = display_state'.text_width
       /\ display_state'.scroll_position = 0
       /\ display_state'.is_running]_vars

\* a wider text was installed over a text that was scrolling
UpdateInstalled ==
  /\ last_op.name = "update"
  /\ last_op.is_running
  /\ last_op.scroll_position > 0
  /\ last_op.text_width < display_state.text_width
  /\ display_state.text = TEXT_AB
  /\ display_state.text_width = 16
  /\ display_state.scroll_position = 0
  /\ display_state.is_running

\* a step in which _update_display runs: a tick of a scrolling text, or an
\* update or clear command applied
PaintStep ==
  \/ _animate /\ Animating
  \/ /\ gui_pc = "draining"
     /\ command_queue # << >>
     /\ Head(command_queue).type \in {"update", "clear"}
     /\ applied_n' = applied_n + 1

\* the grid of ds is the one derived from its text, and the width is its
GridOfText(ds) ==
  /\ \/ ds.text_bitmap = RENDERED[ds.text]
     \/ ds.text = << >> /\ ds.text_bitmap = << >>
  /\ ds.text_width = IF ds.text_bitmap # << >> THEN Len(ds.text_bitmap[1]) ELSE 0

\* C20: whenever the canvas is repainted, the grid painted is the grid of
\* the text display_state holds
SnapshotConsistent == [][PaintStep => GridOfText(display_state')]_vars

\* every handler has returned and the consumer has taken every command put
Quiescent ==
  /\ \A p \in Producers : hpc[p] = "idle"
  /\ gui_pc = "draining"
  /\ command_queue = << >>
  /\ drained # << >>

\* C21: once every producer's request has returned and the queue has been
\* drained, the text is the text of the last update in the queue's order
\* and the grid is that text's grid, whatever the interleaving
LastWriterWins ==
  (Quiescent /\ drained[Len(drained)].command.type = "update") =>
    LET last == drained[Len(drained)].command.data.text IN
    /\ display_state.text = last
    /\ display_state.text_bitmap = RENDERED[last]

\* a step that puts an update command at the tail of the queue
EnqueuesUpdate ==
  /\ Len(command_queue') = Len(command_queue) + 1
  /\ command_queue'[Len(command_queue')].type = "update"

\* the step is a call that ran _validate_display_string on the text it
\* queues and got no error
ValidatedOnPath ==
  \/ \E p \in Producers : \E body \in Bodies :
       /\ update_display(p, body)
       /\ body.json /\ body.has_text
       /\ _validate_display_string(body.is_str, body.text) = "ok"
       /\ command_queue'[Len(command_queue')].data.text = body.text
  \/ \E p \in Producers :
       /\ display_summary(p)
       /\ SUMMARY_CHECK = "ok"
       /\ command_queue'[Len(command_queue')].data.text = SUMMARY_TEXT

\* C22: every update put on the queue, by the handlers or by the startup
\* code, had its text validated on the call path that puts it
ValidatedBeforeEnqueue == [][EnqueuesUpdate => ValidatedOnPath]_vars

\* C23: the scroll position is never advanced while a command is waiting in
\* the queue: the tick drains the queue before it advances
DrainBeforeAdvance == [][(_animate /\ Animating) => command_queue = << >>]_vars

\* C24: a tick taken while the display is idle (not running, or the text
\* empty) changes no field of display_state and repaints nothing, and the
\* scroll position advances only in a state that is running with a text
IdleTickInert ==
  [][/\ (_animate /\ ~Animating) =>
          UNCHANGED << display_state, leds, status_text >>
     /\ display_state'.scroll_position > display_state.scroll_position =>
          Animating]_vars

\* a tick found the display running with an empty text and left the canvas
\* showing what was painted before
IdleTicked ==
  /\ last_op.name = "_animate"
  /\ last_op.is_running
  /\ display_state.is_running
  /\ display_state.text = << >>
  /\ display_state.scroll_position > 0
  /\ leds # AllOff

\* C25: in every state of the server mode is 'left', brightness is 100 and
\* color is 'red', whatever requests were served and commands applied
CosmeticsPinned ==
  /\ display_state.mode = "left"
  /\ display_state.brightness = 100
  /\ display_state.color = "red"

\* the summary's update, which carries neither brightness nor color, was
\* applied after its handler had written display_state, and is scrolling
SummaryApplied ==
  /\ accepted > 0
  /\ last_op.name = "update"
  /\ \A p \in Producers : hpc[p] = "idle"
  /\ \E p \in Producers : response[p] = OkResponse("Summary displayed on LED")
  /\ display_state.text = SUMMARY_TEXT
  /\ display_state.text_bitmap = RENDERED[SUMMARY_TEXT]
  /\ display_state.is_running

\* C26: in every state text_width is the number of columns of text_bitmap,
\* the length of its first row, and 0 when text_bitmap has no rows; no step
\* changes one of the two without leaving them in this relation
WidthIsGridColumns ==
  display_state.text_width =
    IF display_state.text_bitmap # << >>
    THEN Len(display_state.text_bitmap[1]) ELSE 0

\* both cases were met: a grid with columns was replaced by the empty grid
\* of a text the rasterizer fails on
WidthFollowedGrid ==
  /\ last_op.name = "update"
  /\ last_op.text_width > 0
  /\ display_state.text = TEXT_SLOT9
  /\ display_state.text_bitmap = << >>
  /\ display_state.text_width = 0
  /\ display_state.is_running

\* ------------------------------------------------------------------------
\* api.py as the program: main() (lines 103-136) and its two POST handlers
\* (lines 44-63, 73-86) with _process_and_write (lines 14-41).  call holds
\* the command line, badge the LedNameBadge.write calls, command_queue is
\* cmd_q
\* ------------------------------------------------------------------------
ApiBodies ==
  { Body(TRUE, TRUE, TRUE, TEXT_A),
    Body(TRUE, TRUE, TRUE, TEXT_AB),
    Body(TRUE, TRUE, TRUE, TEXT_SLOT9),
    Body(TRUE, FALSE, FALSE, << >>),
    Body(FALSE, FALSE, FALSE, << >>) }

\* lines 112-113
use_mock == call.mock \/ call.both

\* python api.py [--mock] [--both]: main() is entered, nothing is set yet;
\* api.py has no DisplayState and no GUI of its own
ApiInit ==
  /\ \E mock \in BOOLEAN : \E both \in BOOLEAN :
       call = [fn |-> "api.main", mock |-> mock, both |-> both]
  /\ main_pc = "main"
  /\ server_pc = "starting"
  /\ command_queue = << >>
  /\ api_globals = NoGlobals
  /\ badge = << >>
  /\ hpc = [p \in Producers |-> "idle"]
  /\ hreq = [p \in Producers |-> << >>]
  /\ response = [p \in Producers |-> NoResponse]
  /\ put_n = 0
  /\ applied_n = 0
  /\ requests = 0
  /\ accepted = 0
  /\ display_state = DisplayState_init
  /\ leds = AllOff
  /\ status_text = << >>
  /\ animation_running = TRUE
  /\ server_status = "Server: Starting..."
  /\ after = {}
  /\ gui_pc = "idle"
  /\ drained = << >>
  /\ last_op = [name |-> "init", scroll_position |-> 0, text_width |-> 0,
                is_running |-> FALSE]
  /\ ticks = 0

\* lines 115-119 and 135-136: the globals are set; without a mock flag
\* main() serves requests itself
api_main ==
  /\ call.fn = "api.main"
  /\ main_pc = "main"
  /\ IF use_mock
     THEN /\ api_globals' =
               [_API_COMMAND_QUEUE |-> "cmd_q",
                _API_WRITE_HARDWARE |-> IF call.both THEN "True" ELSE "False"]
          /\ main_pc' = "server_thread"
          /\ UNCHANGED server_pc
     ELSE /\ api_globals' = [api_globals EXCEPT !._API_WRITE_HARDWARE = "True"]
          /\ main_pc' = "app.run"
          /\ server_pc' = "running"
  /\ UNCHANGED << command_queue, animation_running, after, gui_pc, put_n,
                  applied_n, ticks, call, badge >>
  /\ UNCHANGED gui_state
  /\ UNCHANGED handler_state

\* lines 122-127: the daemon thread running app.run is started
api_server_thread ==
  /\ main_pc = "server_thread"
  /\ main_pc' = "run_gui"
  /\ server_pc' = "running"
  /\ UNCHANGED << command_queue, animation_running, after, gui_pc, put_n,
                  applied_n, ticks, call, api_globals, badge >>
  /\ UNCHANGED gui_state
  /\ UNCHANGED handler_state

\* lines 130-132: mock-led-display.py is loaded and mock_gui.run_gui is
\* called; the module defines no run_gui, so the call raises AttributeError,
\* main() ends and the process exits, its daemon server thread with it
api_run_gui ==
  /\ main_pc = "run_gui"
  /\ main_pc' = "closed"
  /\ server_pc' = "stopped"
  /\ UNCHANGED << command_queue, animation_running, after, gui_pc, put_n,
                  applied_n, ticks, call, api_globals, badge >>
  /\ UNCHANGED gui_state
  /\ UNCHANGED handler_state

\* a hardware write whose failure is not caught
_process_and_write_uncaught(text, queue, write_hardware, write_ok) ==
  [write |-> write_hardware,
   enqueue |-> queue # "unset" /\ (write_hardware => write_ok),
   raised |-> write_hardware /\ ~write_ok]

\* lines 28-41: what _process_and_write does for a text: write is whether
\* LedNameBadge.write is called (its exception is caught, lines 32-33),
\* enqueue whether the update is put on the queue
_process_and_write(text, queue, write_hardware, write_ok) ==
  [write |-> write_hardware, enqueue |-> queue # "unset", raised |-> FALSE]

\* line 61 and line 84: the arguments the handlers read from the globals
routed(text, write_ok) ==
  _process_and_write(text, api_globals._API_COMMAND_QUEUE,
                     api_globals._API_WRITE_HARDWARE # "False", write_ok)

\* the effect of _process_and_write on the badge and on the queue
api_output(text, write_ok) ==
  LET out == routed(text, write_ok) IN
  /\ badge' = IF out.write
              THEN Append(badge, [text |-> text, ok |-> write_ok])
              ELSE badge
  /\ IF out.enqueue
     THEN /\ command_queue' =
               put(command_queue, UpdateCmd([text |-> text], put_n + 1))
          /\ put_n' = put_n + 1
     ELSE UNCHANGED << command_queue, put_n >>

\* POST /display-text of api.py, lines 44-63
api_display_text_request(p, body) ==
  /\ call.fn = "api.main"
  /\ accepts(p)
  /\ requests < MaxRequests
  /\ requests' = requests + 1
  /\ \E code \in FlaskErrorCodes : \E write_ok \in BOOLEAN :
       LET out == api_display_text(body, code)
           text == IF body.has_text THEN body.text ELSE << >>
       IN
       IF out.accept
       THEN /\ api_output(text, write_ok)
            /\ accepted' = accepted + 1
            /\ response' =
                 [response EXCEPT ![p] = IF routed(text, write_ok).raised
                                         THEN FlaskError(500)
                                         ELSE out.response]
       ELSE /\ response' = [response EXCEPT ![p] = out.response]
            /\ UNCHANGED << command_queue, put_n, accepted, badge >>
  /\ UNCHANGED << animation_running, after, gui_pc, main_pc, server_pc,
                  applied_n, ticks, hpc, hreq, call, api_globals >>
  /\ UNCHANGED gui_state

\* POST /display-summary of api.py, lines 73-86
api_display_summary(p) ==
  /\ call.fn = "api.main"
  /\ accepts(p)
  /\ requests < MaxRequests
  /\ requests' = requests + 1
  /\ \E write_ok \in BOOLEAN :
       IF bitmap(SUMMARY_TEXT).ok
       THEN /\ api_output(SUMMARY_TEXT, write_ok)
            /\ accepted' = accepted + 1
            /\ response' =
                 [response EXCEPT ![p] = IF routed(SUMMARY_TEXT, write_ok).raised
                                         THEN FlaskError(500)
                                         ELSE OkResponse("Summary displayed on LED")]
       ELSE /\ response' = [response EXCEPT ![p] = ErrorResponse("str(e)")]
            /\ UNCHANGED << command_queue, put_n, accepted, badge >>
  /\ UNCHANGED << animation_running, after, gui_pc, main_pc, server_pc,
                  applied_n, ticks, hpc, hreq, call, api_globals >>
  /\ UNCHANGED gui_state

NextApi ==
  \/ api_main
  \/ api_server_thread
  \/ api_run_gui
  \/ \E p \in Producers : \E body \in ApiBodies : api_display_text_request(p, body)
  \/ \E p \in Producers : api_display_summary(p)

\* the threads of the process keep running: main() takes its next step, and
\* Flask serves the requests that arrive
SpecApi ==
  /\ ApiInit
  /\ [][NextApi]_vars
  /\ WF_vars(api_main)
  /\ WF_vars(api_server_thread)
  /\ WF_vars(api_run_gui)

\* C27: with --mock or --both a consumer runs on the queue main() created,
\* so every update a request puts on it is eventually taken and applied
EnqueuedEventuallyApplied ==
  (use_mock /\ command_queue # << >>) ~> (applied_n = put_n)

\* a request passed the handler's validation and reached _process_and_write
RoutedStep == accepted' = accepted + 1

\* the step put one update at the tail of the queue
OneEnqueued ==
  /\ Len(command_queue') = Len(command_queue) + 1
  /\ SubSeq(command_queue', 1, Len(command_queue)) = command_queue
  /\ command_queue'[Len(command_queue')].type = "update"

\* the step called LedNameBadge.write once
OneWrite ==
  /\ Len(badge') = Len(badge) + 1
  /\ SubSeq(badge', 1, Len(badge)) = badge

\* C28: for every accepted request, api.py started with --mock alone puts
\* one update on the queue and writes nothing to the badge; started with
\* neither flag it writes to the badge and puts nothing; started with --both
\* it does both, and answers 200 with the update queued even when the
\* write to the badge fails
OutputRouting ==
  [][RoutedStep =>
       /\ (call.mock /\ ~call.both) => OneEnqueued /\ badge' = badge
       /\ (~call.mock /\ ~call.both) =>
            OneWrite /\ command_queue' = command_queue
       /\ call.both =>
            /\ OneEnqueued
            /\ OneWrite
            /\ command_queue'[Len(command_queue')].data.text =
                 badge'[Len(badge')].text
       /\ \E p \in Producers : accepts(p) /\ response'[p].code = 200]_vars

\* started with --both, a request was answered 200 and its update queued
\* although the write to the badge failed
RoutedDespiteWriteFailure ==
  /\ call.both
  /\ badge # << >>
  /\ ~badge[1].ok
  /\ command_queue # << >>
  /\ command_queue[1].data.text = badge[1].text
  /\ \E p \in Producers : response[p].code = 200

====
